---- MODULE Spec2Model ----
(***************************************************************************)
(* The scanner of tokenization.h: class LexicalAnalyzer, its helpers       *)
(* getNextWord and getNextNumber, and the main loop of tokenize, one       *)
(* action per branch of the loop body.                                     *)
(*                                                                         *)
(* Text is a sequence of one-character strings.  The cursor `position` is  *)
(* kept 0-based as in the source, so the character under the cursor is     *)
(* CharAt(input, position).                                                *)
(***************************************************************************)
EXTENDS Integers, Sequences, FiniteSets, TLC

VARIABLES
    input,               \* LexicalAnalyzer::input
    position,            \* LexicalAnalyzer::position (size_t)
    cleanedInput,        \* LexicalAnalyzer::cleanedInput
    tokens,              \* tokenize: vector<Token> tokens
    inMultiLineComment,  \* tokenize: bool inMultiLineComment
    pc,                  \* "tokenize" while the main loop runs, "returned" after line 298
    pass,                \* which analyzer is running: "first", "cleaned" or "stripped"
    firstTokens,         \* the token sequence returned by the first analyzer
    firstCleaned         \* the cleaned text left by the first analyzer

vars == <<input, position, cleanedInput, tokens, inMultiLineComment, pc,
          pass, firstTokens, firstCleaned>>

-----------------------------------------------------------------------------
(* Bounds of the model *)

\* longest input over the whole alphabet
MaxLen == 3
\* longest input over the string-literal alphabet
MaxStrLen == 6
\* longest input over the number alphabet
MaxNumLen == 7
\* longest input over the comment alphabet
MaxComLen == 5
\* longest input over the operator alphabet
MaxOpLen == 4
\* longest input over the word alphabet
MaxWordLen == 4

\* longest tail of the inputs that bring the cursor to the value of '_'
MaxTailLen == 3

-----------------------------------------------------------------------------
(* Characters *)

\* the terminator that s[s.length()] yields; it is none of the characters tested for
NUL == "NUL"
Quote == "\""
Backslash == "\\"
Newline == "\n"

Lower == {"a","b","c","d","e","f","g","h","i","j","k","l","m",
          "n","o","p","q","r","s","t","u","v","w","x","y","z"}
Upper == {"A","B","C","D","E","F","G","H","I","J","K","L","M",
          "N","O","P","Q","R","S","T","U","V","W","X","Y","Z"}
Digits == {"0","1","2","3","4","5","6","7","8","9"}

isWhitespace(c) == c = " " \/ c = "\t" \/ c = Newline \/ c = "\r"

isAlpha(c) == c \in Lower \/ c \in Upper

isDigit(c) == c \in Digits

isAlphaNumeric(c) == isAlpha(c) \/ isDigit(c)

\* size_t arithmetic is modular.  The modulus of the model is 2^30 instead of
\* 2^64 so that it fits the model checker's integers; the only wrap the scanner
\* performs is 0 - 1 followed by + 1.
SizeMod == 2^30

Inc(p, n) == (p + n) % SizeMod

Dec(p) == (p - 1) % SizeMod

\* the value of the character literal '_' that line 105 compares position with
Underscore == 95

\* what a read past the terminator yields: the read is undefined behaviour, and
\* the value marks it
OOB == "OOB"

\* s[i] of std::string s, i 0-based: s[s.length()] is the terminator
CharAt(s, i) == IF i < Len(s) THEN s[i + 1] ELSE IF i = Len(s) THEN NUL ELSE OOB

\* s.substr(start, n) for start <= s.length()
SubStr(s, start, n) ==
    LET last == IF start + n > Len(s) THEN Len(s) ELSE start + n
    IN  SubSeq(s, start + 1, last)

-----------------------------------------------------------------------------
(* Tokens and the keyword table *)

Token(t, v) == [type |-> t, value |-> v]

keywords ==
    { <<"i","n","t">>, <<"f","l","o","a","t">>, <<"i","f">>, <<"e","l","s","e">>,
      <<"w","h","i","l","e">>, <<"r","e","t","u","r","n">>,
      <<"s","t","r","i","n","g">>, <<"d","o">>, <<"v","o","i","d">>,
      <<"c","o","u","t">>, <<"e","n","d","l">>, <<"f","o","r">>,
      <<"#","i","n","c","l","u","d","e">>, <<"u","s","i","n","g">>,
      <<"n","a","m","e","s","p","a","c","e">>, <<"s","t","d">>,
      <<"i","o","s","t","r","e","a","m">>, <<"f","s","t","r","e","a","m">>,
      <<"v","e","c","t","o","r">> }

-----------------------------------------------------------------------------
(* Helpers of the scanner *)

\* the loop of getNextWord, lines 99-102: the cursor after the run
RECURSIVE WordRun(_, _)
WordRun(s, p) ==
    IF p < Len(s) /\ isAlphaNumeric(CharAt(s, p)) /\ CharAt(s, p) # "_"
    THEN WordRun(s, Inc(p, 1))
    ELSE p

\* getNextWord called with the cursor at p: the word returned and the cursor left
getNextWord(s, p) ==
    LET e == WordRun(s, p)
    IN  IF e < Len(s) /\ ~isAlphaNumeric(CharAt(s, e))
        THEN LET e2 == IF e = Underscore /\ isAlphaNumeric(CharAt(s, Inc(e, 1)))
                       THEN Inc(e, 1) ELSE e
             IN  [result |-> SubStr(s, p, e2 - p), position |-> Dec(e2)]
        ELSE [result |-> <<>>, position |-> e]

\* the loop of getNextNumber, lines 120-129: the cursor after the run
RECURSIVE NumberRun(_, _, _)
NumberRun(s, p, hasDecimal) ==
    IF p < Len(s) /\ (isDigit(CharAt(s, p)) \/ CharAt(s, p) = ".")
    THEN IF CharAt(s, p) = "."
         THEN IF hasDecimal THEN p ELSE NumberRun(s, Inc(p, 1), TRUE)
         ELSE NumberRun(s, Inc(p, 1), hasDecimal)
    ELSE p

getNextNumber(s, p) ==
    LET e == NumberRun(s, p, FALSE)
    IN  [result |-> SubStr(s, p, e - p), position |-> e]

\* the loop of the underscore branch, lines 203-206
RECURSIVE UnderscoreRun(_, _, _)
UnderscoreRun(s, p, word) ==
    IF p < Len(s) /\ (isAlphaNumeric(CharAt(s, p)) \/ CharAt(s, p) = "_")
    THEN UnderscoreRun(s, Inc(p, 1), Append(word, CharAt(s, p)))
    ELSE [result |-> word, position |-> p]

\* the loop of lines 268-280 with the test of the escape flag of line 269 lost
RECURSIVE StringRunNoEscape(_, _, _, _)
StringRunNoEscape(s, p, literalString, inEscapedQuote) ==
    IF p < Len(s)
    THEN IF CharAt(s, p) = Quote
         THEN [result |-> literalString, position |-> Inc(p, 1)]
         ELSE IF CharAt(s, p) = Backslash
              THEN StringRunNoEscape(s, Inc(p, 1), literalString, TRUE)
              ELSE StringRunNoEscape(s, Inc(p, 1), Append(literalString, CharAt(s, p)),
                                     FALSE)
    ELSE [result |-> literalString, position |-> p]

\* the loop of lines 268-280 giving up the collected content when the input ends
RECURSIVE StringRunDropPartial(_, _, _, _)
StringRunDropPartial(s, p, literalString, inEscapedQuote) ==
    IF p < Len(s)
    THEN IF CharAt(s, p) = Quote /\ ~inEscapedQuote
         THEN [result |-> literalString, position |-> Inc(p, 1)]
         ELSE IF CharAt(s, p) = Backslash
              THEN StringRunDropPartial(s, Inc(p, 1), literalString, TRUE)
              ELSE StringRunDropPartial(s, Inc(p, 1),
                                        Append(literalString, CharAt(s, p)), FALSE)
    ELSE [result |-> <<>>, position |-> p]

\* the loop of the string-literal branch, lines 268-280
RECURSIVE StringRun(_, _, _, _)
StringRun(s, p, literalString, inEscapedQuote) ==
    IF p < Len(s)
    THEN IF CharAt(s, p) = Quote /\ ~inEscapedQuote
         THEN [result |-> literalString, position |-> Inc(p, 1)]
         ELSE IF CharAt(s, p) = Backslash
              THEN StringRun(s, Inc(p, 1), literalString, TRUE)
              ELSE StringRun(s, Inc(p, 1), Append(literalString, CharAt(s, p)), FALSE)
    ELSE [result |-> literalString, position |-> p]

\* the loop of the single-line comment branch, lines 174-176
RECURSIVE LineEnd(_, _)
LineEnd(s, p) ==
    IF p < Len(s) /\ CharAt(s, p) # Newline THEN LineEnd(s, Inc(p, 1)) ELSE p

-----------------------------------------------------------------------------
(* Inputs *)

Strings(A, n) == UNION { [1..k -> A] : k \in 0..n }

Alphabet == {"d", "o", "1", ".", "#", "_", "/", "*", "<", ";",
             Quote, Backslash, Newline, " "}
StrAlphabet == {Quote, Backslash, "a", ";"}
NumAlphabet == {"1", ".", "+"}
ComAlphabet == {"/", "*", "a", "#", Newline, ";"}
OpAlphabet == {"<", ">", "="}
WordAlphabet == {"d", "o", "1", " "}

TailAlphabet == {"#", "d", " "}

\* n characters of whitespace, after an opening `/*` when inComment
Padding(n, inComment) ==
    [i \in 1..n |-> IF inComment /\ i = 1 THEN "/"
                    ELSE IF inComment /\ i = 2 THEN "*" ELSE " "]

\* the inputs long enough for the cursor to reach the value that line 105
\* compares it with: whitespace, inside or outside a comment, then a short tail
\* that starts at that cursor value or one before it
LongInputs ==
    { Padding(n, c) \o t : n \in {Underscore - 1, Underscore}, c \in BOOLEAN,
                           t \in Strings(TailAlphabet, MaxTailLen) }

Inputs == Strings(Alphabet, MaxLen) \cup Strings(StrAlphabet, MaxStrLen)
          \cup Strings(NumAlphabet, MaxNumLen) \cup Strings(ComAlphabet, MaxComLen)
          \cup Strings(OpAlphabet, MaxOpLen) \cup Strings(WordAlphabet, MaxWordLen)
          \cup LongInputs

-----------------------------------------------------------------------------
(* The main loop of tokenize *)

\* the scanner's state as a record, to follow it through one iteration
Current == [position |-> position, inMultiLineComment |-> inMultiLineComment,
            tokens |-> tokens, cleanedInput |-> cleanedInput]

currentChar == CharAt(input, position)

\* lines 160-164: the preprocessor-directive check
Directive(c, st) ==
    IF c = "#"
    THEN LET w == getNextWord(input, st.position)
         IN  [st EXCEPT !.tokens = Append(@, Token("KEYWORD", w.result)),
                        !.cleanedInput = @ \o w.result,
                        !.position = w.position]
    ELSE st

\* line 172: the single-line comment test, reached when line 167 fails
IsLineComment(c, st) ==
    /\ ~(c = "/" /\ CharAt(input, Inc(st.position, 1)) = "*")
    /\ c = "/" /\ CharAt(input, Inc(st.position, 1)) = "/"

\* lines 167-170: the multi-line comment start
CommentStart(c, st) ==
    IF c = "/" /\ CharAt(input, Inc(st.position, 1)) = "*"
    THEN [st EXCEPT !.inMultiLineComment = TRUE, !.position = Inc(@, 2)]
    ELSE st

\* lines 181-184: the multi-line comment end
CommentEnd(c, st) ==
    IF st.inMultiLineComment /\ c = "*" /\ CharAt(input, Inc(st.position, 1)) = "/"
    THEN [st EXCEPT !.inMultiLineComment = FALSE, !.position = Inc(@, 2)]
    ELSE st

\* the state in which line 187 is reached
Entry == CommentEnd(currentChar, CommentStart(currentChar, Directive(currentChar, Current)))

OperatorChars == {"+", "-", "*", "=", "<", ">", "^", "/"}
SeparatorChars == {"(", ")", "{", "}", ",", ";"}

\* the branch of lines 189-293 that character c takes with the cursor at p
Branch(c, p) ==
    IF isAlpha(c) THEN "word"
    ELSE IF isAlpha(c) \/ c = "_" THEN "underscore"
    ELSE IF isDigit(c) THEN "number"
    ELSE IF c = "<" /\ CharAt(input, Inc(p, 1)) = "<" THEN "shiftLeft"
    ELSE IF c = ">" /\ CharAt(input, Inc(p, 1)) = ">" THEN "shiftRight"
    ELSE IF c \in OperatorChars THEN "operator"
    ELSE IF c \in SeparatorChars THEN "separator"
    ELSE IF c = Quote THEN "string"
    ELSE "unknown"

\* cap on the token vector: a scan that loops forever while emitting tokens is
\* cut here.  A scan that returns emits at most two tokens per character.
TokenCap == 2 * Len(input) + 4

\* line 150, with the cap on the token vector
Scanning == pc = "tokenize" /\ position < Len(input) /\ Len(tokens) < TokenCap

\* the iteration passes the whitespace and single-line comment checks
ReachesBody ==
    /\ Scanning
    /\ ~isWhitespace(currentChar)
    /\ ~IsLineComment(currentChar, Directive(currentChar, Current))

\* the iteration enters the dispatch of line 187 and takes branch b
Takes(b) ==
    /\ ReachesBody
    /\ ~Entry.inMultiLineComment
    /\ Branch(currentChar, Entry.position) = b

\* the end of an iteration that entered the dispatch: the branch left the cursor
\* at p, and line 294 advances it
Emit(toks, text, p) ==
    /\ tokens' = Entry.tokens \o toks
    /\ cleanedInput' = Entry.cleanedInput \o text
    /\ position' = Inc(p, 1)
    /\ inMultiLineComment' = Entry.inMultiLineComment
    /\ UNCHANGED <<input, pc, pass, firstTokens, firstCleaned>>

\* lines 154-157
SkipWhitespace ==
    /\ Scanning
    /\ isWhitespace(currentChar)
    /\ position' = Inc(position, 1)
    /\ UNCHANGED <<input, cleanedInput, tokens, inMultiLineComment, pc,
                   pass, firstTokens, firstCleaned>>

\* lines 172-178
LineComment ==
    /\ Scanning
    /\ ~isWhitespace(currentChar)
    /\ IsLineComment(currentChar, Directive(currentChar, Current))
    /\ position' = LineEnd(input, position)
    /\ UNCHANGED <<input, cleanedInput, tokens, inMultiLineComment, pc,
                   pass, firstTokens, firstCleaned>>

\* an iteration that is in comment mode at line 187: lines 160-184 only
CommentBody ==
    /\ ReachesBody
    /\ Entry.inMultiLineComment
    /\ position' = Entry.position
    /\ inMultiLineComment' = Entry.inMultiLineComment
    /\ tokens' = Entry.tokens
    /\ cleanedInput' = Entry.cleanedInput
    /\ UNCHANGED <<input, pc, pass, firstTokens, firstCleaned>>

\* lines 189-200
Word ==
    /\ Takes("word")
    /\ LET w == getNextWord(input, Entry.position)
       IN  Emit(<<Token(IF w.result \in keywords THEN "KEYWORD" ELSE "IDENTIFIER",
                        w.result)>>,
                w.result, w.position)

\* lines 201-209
UnderscoreWord ==
    /\ Takes("underscore")
    /\ LET w == UnderscoreRun(input, Entry.position, <<>>)
       IN  Emit(<<Token("IDENTIFIER", w.result)>>, w.result, w.position)

\* lines 211-222
Number ==
    /\ Takes("number")
    /\ LET n == getNextNumber(input, Entry.position)
       IN  Emit(<<Token("LITERAL", n.result)>>, n.result, n.position)

\* lines 224-228
ShiftLeft ==
    /\ Takes("shiftLeft")
    /\ Emit(<<Token("OPERATOR", <<"<", "<">>)>>, <<"<", "<">>, Inc(Entry.position, 2))

\* lines 230-234
ShiftRight ==
    /\ Takes("shiftRight")
    /\ Emit(<<Token("OPERATOR", <<">", ">">>)>>, <<">", ">">>, Inc(Entry.position, 2))

\* lines 236-248
Operator ==
    /\ Takes("operator")
    /\ Emit(<<Token("OPERATOR", <<currentChar>>)>>, <<currentChar>>,
            Inc(Entry.position, 1))

\* lines 251-261
Separator ==
    /\ Takes("separator")
    /\ Emit(<<Token("SEPARATOR", <<currentChar>>)>>, <<currentChar>>,
            Inc(Entry.position, 1))

\* lines 263-286 without the test of line 282: a token also for an empty literal
StringLiteralAlwaysEmits ==
    /\ Takes("string")
    /\ LET r == StringRun(input, Inc(Entry.position, 1), <<>>, FALSE)
       IN  Emit(<<Token("LITERAL", r.result)>>,
                <<Quote>> \o r.result \o <<Quote>>, r.position)

\* lines 263-286
StringLiteral ==
    /\ Takes("string")
    /\ LET r == StringRun(input, Inc(Entry.position, 1), <<>>, FALSE)
       IN  Emit(IF r.result # <<>> THEN <<Token("LITERAL", r.result)>> ELSE <<>>,
                <<Quote>> \o r.result \o <<Quote>>, r.position)

\* lines 288-293 without line 291: the character is not appended
UnknownNotCleaned ==
    /\ Takes("unknown")
    /\ Emit(<<Token("UNKNOWN", <<currentChar>>)>>, <<>>, Inc(Entry.position, 1))

\* lines 288-293
Unknown ==
    /\ Takes("unknown")
    /\ Emit(<<Token("UNKNOWN", <<currentChar>>)>>, <<currentChar>>,
            Inc(Entry.position, 1))

\* line 150 fails: line 298
Return ==
    /\ pc = "tokenize"
    /\ ~(position < Len(input))
    /\ pc' = "returned"
    /\ UNCHANGED <<input, position, cleanedInput, tokens, inMultiLineComment,
                   pass, firstTokens, firstCleaned>>

-----------------------------------------------------------------------------
(* The indices at which one iteration reads the input *)

\* the indices a loop `while (position < input.length() && ... input[position] ...)`
\* reads when it starts at p and leaves the cursor at e
LoopReads(s, p, e) == { i \in p..e : i < e \/ e < Len(s) }

\* getNextWord called at p: the loop of line 99, then lines 104 and 105
getNextWordReads(s, p) ==
    LET e == WordRun(s, p)
    IN  LoopReads(s, p, e)
        \cup (IF e < Len(s) THEN {e} ELSE {})
        \cup (IF e < Len(s) /\ ~isAlphaNumeric(CharAt(s, e)) /\ e = Underscore
              THEN {Inc(e, 1)} ELSE {})

\* line 160: getNextWord is called for `#`
DirectiveReads(c, st) == IF c = "#" THEN getNextWordReads(input, st.position) ELSE {}

\* lines 167 and 172: the lookahead is evaluated only after currentChar == '/'
CommentStartReads(c, st) == IF c = "/" THEN {Inc(st.position, 1)} ELSE {}

\* line 181 with the lookahead evaluated whatever currentChar is
CommentEndReadsAlways(c, st) ==
    IF st.inMultiLineComment THEN {Inc(st.position, 1)} ELSE {}

\* line 181: the lookahead is evaluated only in comment mode on a `*`
CommentEndReads(c, st) ==
    IF st.inMultiLineComment /\ c = "*" THEN {Inc(st.position, 1)} ELSE {}

\* lines 189-293 entered with the cursor at p: the reads of the branch taken and
\* of the tests before it
BranchReads(c, p) ==
    IF isAlpha(c) THEN getNextWordReads(input, p)
    ELSE IF c = "_" THEN LoopReads(input, p, UnderscoreRun(input, p, <<>>).position)
    ELSE IF isDigit(c) THEN LoopReads(input, p, NumberRun(input, p, FALSE))
    ELSE IF c = "<" \/ c = ">" THEN {Inc(p, 1)}
    ELSE IF c = Quote
         THEN LET r == StringRun(input, Inc(p, 1), <<>>, FALSE)
              IN  { i \in Inc(p, 1)..(r.position - 1) : TRUE }
    ELSE {}

\* every index at which the iteration that starts in this state reads the input
IterationReads ==
    LET c == currentChar
        d == Directive(c, Current)
        cs == CommentStart(c, d)
    IN  {position}
        \cup (IF isWhitespace(c) THEN {}
              ELSE DirectiveReads(c, Current) \cup CommentStartReads(c, d)
                   \cup (IF IsLineComment(c, d)
                         THEN LoopReads(input, position, LineEnd(input, position))
                         ELSE CommentEndReads(c, cs)
                              \cup (IF ~Entry.inMultiLineComment
                                    THEN BranchReads(c, Entry.position) ELSE {})))

-----------------------------------------------------------------------------
(* Specifications *)

\* lines 137-142 and 147-148: a new analyzer on `source`, at the entry of tokenize
Construct(source) ==
    /\ input = source
    /\ position = 0
    /\ cleanedInput = <<>>
    /\ tokens = <<>>
    /\ inMultiLineComment = FALSE
    /\ pc = "tokenize"

Init ==
    /\ \E source \in Inputs : Construct(source)
    /\ pass = "first"
    /\ firstTokens = <<>>
    /\ firstCleaned = <<>>

Next ==
    \/ SkipWhitespace
    \/ LineComment
    \/ CommentBody
    \/ Word
    \/ UnderscoreWord
    \/ Number
    \/ ShiftLeft
    \/ ShiftRight
    \/ Operator
    \/ Separator
    \/ StringLiteral
    \/ Unknown
    \/ Return

Spec == Init /\ [][Next]_vars

\* a fresh analyzer for a second scan: the first scan's results are kept aside
Rescan(source, kind) ==
    /\ pc = "returned"
    /\ pass = "first"
    /\ input' = source
    /\ position' = 0
    /\ cleanedInput' = <<>>
    /\ tokens' = <<>>
    /\ inMultiLineComment' = FALSE
    /\ pc' = "tokenize"
    /\ pass' = kind
    /\ firstTokens' = tokens
    /\ firstCleaned' = cleanedInput

\* the places where `//` opens a comment whatever precedes it: nothing before
\* them opens a string or a multi-line comment, or is a `/` itself
LineCommentStarts(s) ==
    { i \in 0..(Len(s) - 2) :
        /\ CharAt(s, i) = "/" /\ CharAt(s, i + 1) = "/"
        /\ \A j \in 0..(i - 1) : CharAt(s, j) \notin {"/", "*", Quote} }

\* s without the text of its first single-line comment, the newline kept
StripLineComment(s) ==
    LET i == CHOOSE i \in LineCommentStarts(s) : TRUE
        e == LineEnd(s, i)
    IN  SubStr(s, 0, i) \o SubStr(s, e, Len(s) - e)

\* a new LexicalAnalyzer on the cleaned text of the first
RescanCleaned == Rescan(cleanedInput, "cleaned")

\* a new LexicalAnalyzer on the input without its single-line comment
RescanStripped ==
    /\ LineCommentStarts(input) # {}
    /\ Rescan(StripLineComment(input), "stripped")

\* the scan of one text, under the fairness of a running program: an iteration
\* that can change the state is taken
FairSpec == Spec /\ WF_vars(Next)

NextCleaned == Next \/ RescanCleaned

\* one text scanned, then its cleaned text scanned by a second analyzer
SpecCleaned == Init /\ [][NextCleaned]_vars

NextStripped == Next \/ RescanStripped

\* one text scanned, then the text without its `//` comment scanned
SpecStripped == Init /\ [][NextStripped]_vars

\* a second call of tokenize on the same analyzer with the cursor put back to
\* the start of the input
SecondCallRewinds ==
    /\ pc = "returned"
    /\ pass = "first"
    /\ tokens' = <<>>
    /\ inMultiLineComment' = FALSE
    /\ pc' = "tokenize"
    /\ pass' = "again"
    /\ firstTokens' = tokens
    /\ firstCleaned' = cleanedInput
    /\ position' = 0
    /\ UNCHANGED <<input, cleanedInput>>

\* lines 145-148: a second call of tokenize on the same analyzer; the cursor and
\* the cleaned text are members and keep their values, the locals are new
SecondCall ==
    /\ pc = "returned"
    /\ pass = "first"
    /\ tokens' = <<>>
    /\ inMultiLineComment' = FALSE
    /\ pc' = "tokenize"
    /\ pass' = "again"
    /\ firstTokens' = tokens
    /\ firstCleaned' = cleanedInput
    /\ UNCHANGED <<input, position, cleanedInput>>

NextTwice == Next \/ SecondCall

\* one text scanned, then tokenize called again on the same analyzer
SpecTwice == Init /\ [][NextTwice]_vars

-----------------------------------------------------------------------------
(* Vocabulary of the properties *)

Min(a, b) == IF a <= b THEN a ELSE b

Last(seq) == seq[Len(seq)]

Branches == {"word", "underscore", "number", "shiftLeft", "shiftRight",
             "operator", "separator", "string", "unknown"}

\* an iteration that starts outside a comment, on a character that nothing
\* before the dispatch of line 187 touches
DirectTakes(b) == Takes(b) /\ ~inMultiLineComment /\ currentChar # "#"

\* the number of characters of s from p on that satisfy ok, up to the first that
\* does not
RunLength(s, p, ok(_)) ==
    CHOOSE n \in 0..(Len(s) - p) :
        /\ \A i \in 0..(n - 1) : ok(CharAt(s, p + i))
        /\ p + n = Len(s) \/ ~ok(CharAt(s, p + n))

\* the maximal run of alphanumeric characters of s from p
MaximalWord(s, p) == SubStr(s, p, RunLength(s, p, isAlphaNumeric))

Dots(w) == Cardinality({ i \in 1..Len(w) : w[i] = "." })

\* the longest run of digits and `.` of s from p that holds at most one `.`
MaximalNumber(s, p) ==
    LET DigitOrDot(c) == isDigit(c) \/ c = "."
        fits == { n \in 0..RunLength(s, p, DigitOrDot) : Dots(SubStr(s, p, n)) <= 1 }
        n == CHOOSE n \in fits : \A m \in fits : m <= n
    IN  SubStr(s, p, n)

\* the index of the quote that closes the string opened at p: the first quote
\* after p that no backslash immediately precedes; Len(s) when there is none
ClosingQuote(s, p) ==
    LET closes == { q \in (p + 1)..(Len(s) - 1) :
                      CharAt(s, q) = Quote /\ CharAt(s, q - 1) # Backslash }
    IN  IF closes = {} THEN Len(s)
        ELSE CHOOSE q \in closes : \A r \in closes : q <= r

NotBackslash(c) == c # Backslash

\* the text between the quote at p and position q, the escape backslashes left out
StringContent(s, p, q) == SelectSeq(SubStr(s, p + 1, q - p - 1), NotBackslash)

\* the string opened under the cursor has no closing quote
Unterminated == ClosingQuote(input, position) = Len(input)

\* the number of characters of the input that the token emitted by an iteration
\* on branch b stands for
Span(b, toks) ==
    IF b = "string"
    THEN Min(ClosingQuote(input, position) + 1, Len(input)) - position
    ELSE Len(Last(toks).value)

\* the characters left behind when an iteration that stood for n characters from
\* the cursor leaves the cursor at q
Skipped(n, q) ==
    { i \in (position + n)..(Min(q, Len(input)) - 1) : ~isWhitespace(CharAt(input, i)) }

\* the cursor p is at q, or both are at or past the end of the input
AtOrPastEnd(p, q) == Min(p, Len(input)) = Min(q, Len(input))

Categories(toks) == [i \in 1..Len(toks) |-> toks[i].type]

-----------------------------------------------------------------------------
(* Properties *)

\* C1: every scan terminates: the main loop eventually finds the cursor at or
\* past the end of the input and tokenize returns
Termination == <>(pc = "returned")

\* C2: after a branch that emitted a lexeme (or scanned a string literal) the
\* next iteration starts at the character that follows the lexeme's last
\* character: no character other than whitespace lies between the end of the
\* lexeme and the cursor
NoCharacterSkipped ==
    [][\A b \in Branches :
         (DirectTakes(b) /\ (b = "string" \/ Last(tokens').value # <<>>))
            => Skipped(Span(b, tokens'), position') = {}]_vars

\* C3: an input with a `//` comment yields the same tokens and the same cleaned
\* text as the input with the comment text removed
LineCommentStripped ==
    (pass = "stripped" /\ pc = "returned")
        => (tokens = firstTokens /\ cleanedInput = firstCleaned)

\* C4: from the iteration that recognises `/*` to the one that recognises `*/`
\* no token is emitted and the cleaned text does not grow, and the iteration
\* that recognises `*/` leaves the cursor right after its `/` (or, when the
\* input ends there, anywhere at or past its end)
CommentModeSilent ==
    [][(Scanning /\ (inMultiLineComment
                     \/ (currentChar = "/" /\ CharAt(input, position + 1) = "*")))
          => /\ tokens' = tokens
             /\ cleanedInput' = cleanedInput
             /\ (inMultiLineComment /\ currentChar = "*"
                    /\ CharAt(input, position + 1) = "/")
                   => AtOrPastEnd(position', position + 2)]_vars

\* C5: with the cursor at `<<` or `>>` outside a comment, one Operator token
\* with that lexeme is emitted and the scan continues with the character right
\* after the two-character operator (when there is one)
ShiftOperatorThenNext ==
    [][(DirectTakes("shiftLeft") \/ DirectTakes("shiftRight"))
          => /\ tokens' = Append(tokens, Token("OPERATOR", <<currentChar, currentChar>>))
             /\ AtOrPastEnd(position', position + 2)]_vars

\* C6: with the cursor at a letter outside a comment, one token is emitted whose
\* lexeme is the maximal alphanumeric run from the cursor, a Keyword if the run
\* is in the keyword table and an Identifier otherwise, also at the end of input
WordPartition ==
    [][DirectTakes("word")
          => LET run == MaximalWord(input, position)
             IN  tokens' = Append(tokens,
                     Token(IF run \in keywords THEN "KEYWORD" ELSE "IDENTIFIER", run))]_vars

\* C7: with the cursor at a digit, one Literal is emitted whose lexeme is the
\* maximal run of digits with at most one `.`, and a second `.` that ends the
\* run is the next character the main loop processes
SecondDotNext ==
    [][DirectTakes("number")
          => LET run == MaximalNumber(input, position)
             IN  /\ tokens' = Append(tokens, Token("LITERAL", run))
                 /\ CharAt(input, position + Len(run)) = "."
                       => position' = position + Len(run)]_vars

\* C8: a quote that a backslash immediately precedes does not close a string
\* literal: the literal closed by the first quote that no backslash precedes
\* yields one Literal whose lexeme is the text between the delimiting quotes,
\* embedded quotes included, escape backslashes and delimiters excluded
EscapedQuoteKept ==
    [][(DirectTakes("string") /\ ~Unterminated)
          => LET content == StringContent(input, position, ClosingQuote(input, position))
             IN  tokens' = tokens \o (IF content # <<>>
                                      THEN <<Token("LITERAL", content)>> ELSE <<>>)]_vars

\* C8 witness: the scan of "a\"a" has returned the single Literal a"a
EscapedQuoteScanned ==
    /\ input = <<Quote, "a", Backslash, Quote, "a", Quote>>
    /\ pc = "returned"
    /\ tokens = <<Token("LITERAL", <<"a", Quote, "a">>)>>

\* C9 as stated: when the input ends before a closing quote, one Literal with
\* the content collected after the opening quote is emitted and the loop ends
UnterminatedEmitsLiteral ==
    [][(DirectTakes("string") /\ Unterminated)
          => /\ tokens' = Append(tokens,
                    Token("LITERAL", StringContent(input, position, Len(input))))
             /\ position' >= Len(input)]_vars

\* C9 as amended: when the input ends before a closing quote, one Literal with
\* the content collected after the opening quote is emitted if that content is
\* not empty, and no token if it is; the cursor is left past the end of the
\* input, so that the loop ends and tokenize returns
UnterminatedRecovered ==
    [][(DirectTakes("string") /\ Unterminated)
          => LET content == StringContent(input, position, Len(input))
             IN  /\ tokens' = tokens \o (IF content # <<>>
                                         THEN <<Token("LITERAL", content)>> ELSE <<>>)
                 /\ position' >= Len(input)
                 /\ pc' = "tokenize"]_vars

\* C9 witness: the scan of "aaa without a closing quote has returned Literal aaa
UnterminatedScanned ==
    /\ input = <<Quote, "a", "a", "a">>
    /\ pc = "returned"
    /\ tokens = <<Token("LITERAL", <<"a", "a", "a">>)>>
    /\ position >= Len(input)

\* C10: scanning the cleaned text of a scan with a new analyzer yields the same
\* sequence of token categories as the scan
RescanSameCategories ==
    (pass = "cleaned" /\ pc = "returned")
        => Categories(tokens) = Categories(firstTokens)

\* the sum of the lengths of the lexemes of toks
RECURSIVE LexemeSum(_)
LexemeSum(toks) ==
    IF toks = <<>> THEN 0 ELSE Len(toks[1].value) + LexemeSum(Tail(toks))

\* C11: in every state of a scan the lexemes of the tokens emitted so far are
\* together no longer than the input
LexemeLengthBound == LexemeSum(tokens) <= Len(input)

\* C12: every read of the input performed by an iteration of the main loop uses
\* an index that is at most the length of the input, the index of the terminator
BoundedReads ==
    (pc = "tokenize" /\ position < Len(input))
        => \A i \in IterationReads : i <= Len(input)

\* C12 witness: after an earlier iteration has advanced the cursor, an iteration
\* looks ahead at the terminator itself
TerminatorRead ==
    /\ pc = "tokenize" /\ 0 < position /\ position < Len(input)
    /\ Len(input) \in IterationReads

\* C13: the cursor at the start of an iteration of the main loop is never
\* before the cursor at the start of the previous iteration
CursorMonotone == [][position' >= position]_vars

\* C14 as stated: outside a comment a character that is not whitespace, a
\* letter, a digit, an operator or separator character or a quote (`_` is such
\* a character) makes the iteration emit exactly one token, Unknown with that
\* character as lexeme, and append the character to the cleaned text
FallbackChar(c) ==
    /\ ~isWhitespace(c) /\ ~isAlpha(c) /\ ~isDigit(c)
    /\ c \notin OperatorChars /\ c \notin SeparatorChars /\ c # Quote

UnknownFallback ==
    [][(ReachesBody /\ ~inMultiLineComment /\ FallbackChar(currentChar))
          => /\ tokens' = Append(tokens, Token("UNKNOWN", <<currentChar>>))
             /\ cleanedInput' = Append(cleanedInput, currentChar)]_vars

isWordChar(c) == isAlphaNumeric(c) \/ c = "_"

\* the lexeme of the Keyword token that the directive check emits for a `#`
\* under the cursor: empty, except with the cursor at the value of '_' and a
\* letter or digit after the `#`
DirectiveLexeme ==
    IF position = Underscore /\ isAlphaNumeric(CharAt(input, position + 1))
    THEN <<"#">> ELSE <<>>

\* C14 as amended: outside a comment a character that is not whitespace, a
\* letter, a digit, an operator or separator character, a quote or `_` makes the
\* iteration emit Unknown with that character as lexeme and append the character
\* to the cleaned text; it is the only token of the iteration, except for `#`,
\* which the directive check has first emitted a Keyword for.  `_` starts an
\* Identifier, the maximal run of letters, digits and `_`.
UnknownFallbackAmended ==
    [][(ReachesBody /\ ~inMultiLineComment /\ FallbackChar(currentChar))
          => IF currentChar = "_"
             THEN LET run == SubStr(input, position, RunLength(input, position, isWordChar))
                  IN  /\ tokens' = Append(tokens, Token("IDENTIFIER", run))
                      /\ cleanedInput' = cleanedInput \o run
             ELSE IF currentChar = "#"
             THEN /\ tokens' = tokens \o <<Token("KEYWORD", DirectiveLexeme),
                                          Token("UNKNOWN", <<"#">>)>>
                  /\ cleanedInput' = cleanedInput \o DirectiveLexeme \o <<"#">>
             ELSE /\ tokens' = Append(tokens, Token("UNKNOWN", <<currentChar>>))
                  /\ cleanedInput' = Append(cleanedInput, currentChar)]_vars

\* C14 witness: a scan has emitted Unknown for a `.` and appended it
UnknownEmitted ==
    /\ tokens # <<>> /\ Last(tokens) = Token("UNKNOWN", <<".">>)
    /\ cleanedInput # <<>> /\ Last(cleanedInput) = "."

\* C15: a string literal whose inner text is empty emits no token and appends
\* the pair of quotes to the cleaned text; any other string literal emits a
\* Literal whose lexeme is the inner text without the quotes and appends the
\* inner text wrapped in quotes
EmptyStringNoToken ==
    [][DirectTakes("string")
          => LET content == StringContent(input, position, ClosingQuote(input, position))
             IN  /\ content = <<>> => tokens' = tokens
                 /\ content # <<>> => tokens' = Append(tokens, Token("LITERAL", content))
                 /\ cleanedInput' = cleanedInput \o <<Quote>> \o content \o <<Quote>>]_vars

\* C15 witness: the scan of a pair of quotes has returned no token and the
\* cleaned text is the pair of quotes
EmptyStringScanned ==
    /\ input = <<Quote, Quote>>
    /\ pc = "returned"
    /\ tokens = <<>>
    /\ cleanedInput = <<Quote, Quote>>

\* C16: every emitted token of category Keyword has a lexeme of the keyword table
KeywordsFromTable ==
    \A i \in 1..Len(tokens) : tokens[i].type = "KEYWORD" => tokens[i].value \in keywords

RECURSIVE Concat(_)
Concat(toks) == IF toks = <<>> THEN <<>> ELSE toks[1].value \o Concat(Tail(toks))

IsPrefix(a, b) == Len(a) <= Len(b) /\ SubSeq(b, 1, Len(a)) = a

Suffix(a, b) == SubSeq(b, Len(a) + 1, Len(b))

\* C17: the cleaned text is append-only and every iteration appends to it the
\* lexemes of the tokens it emits, in order, a string literal wrapped in quotes
\* (the two quotes alone when it is empty and emits no token); what is appended
\* outside a string literal holds no whitespace
CleanedMirrorsTokens ==
    [][/\ IsPrefix(tokens, tokens')
       /\ IsPrefix(cleanedInput, cleanedInput')
       /\ LET new == Concat(Suffix(tokens, tokens'))
              added == Suffix(cleanedInput, cleanedInput')
          IN  IF Takes("string")
              THEN added = <<Quote>> \o new \o <<Quote>>
              ELSE /\ added = new
                   /\ \A i \in 1..Len(added) : ~isWhitespace(added[i])]_vars

\* C18: a second call of tokenize on the same analyzer starts with the cursor at
\* or past the end of the input, returns an empty token sequence and leaves the
\* cursor and the cleaned text as the first call left them
SecondCallEmpty ==
    /\ [](pass = "again" => (position >= Len(input) /\ tokens = <<>>
                             /\ cleanedInput = firstCleaned))
    /\ [][pass' = "again" => position' = position]_vars

\* C18 witness: the second call has returned after a first call that emitted
\* tokens and moved the cursor
SecondCallReturned ==
    /\ pass = "again" /\ pc = "returned"
    /\ firstTokens # <<>> /\ position > 0 /\ cleanedInput # <<>>

====
